---- MODULE Spec2Model ----
(***************************************************************************)
(* A model of FileAdaptor (src/lib/adaptors/file.ts): the traversal that   *)
(* converts a rendered markup tree into a sequence of ADF elements, the    *)
(* mermaid diagram pipeline, and the get-or-create page linkage of         *)
(* getConfluenceLink.  Text is a sequence of one-character strings.        *)
(***************************************************************************)
EXTENDS Integers, Sequences, FiniteSets, TLC

\* ------------------------------------------------------------------ bounds
MaxRuns == 2
MaxTop == 2
MaxRows == 2
MaxCols == 2
MaxItems == 2

SeqsUpTo(S, lo, hi) == UNION {[1..n -> S] : n \in lo..hi}

\* ------------------------------------------------------- the markup tree
\* One DOM node.  attrs "data-task" is <<>> when absent and <<v>> when set.
Elem(name, cls, kids) ==
    [nodeName |-> name, classList |-> cls, dataTask |-> <<>>, type |-> "",
     data |-> <<>>, childNodes |-> kids]

TextNode(chars) ==
    [nodeName |-> "#text", classList |-> <<>>, dataTask |-> <<>>, type |-> "",
     data |-> chars, childNodes |-> <<>>]

Checkbox ==
    [nodeName |-> "INPUT", classList |-> <<>>, dataTask |-> <<>>,
     type |-> "checkbox", data |-> <<>>, childNodes |-> <<>>]

TaskLi(task, kids) ==
    [nodeName |-> "LI", classList |-> <<<<"", "task-list-item">>>>, dataTask |-> <<task>>,
     type |-> "", data |-> <<>>, childNodes |-> kids]

\* Node.textContent: the text of the descendants, in document order.
RECURSIVE textOfSeq(_)
textOfSeq(s) ==
    IF s = <<>> THEN <<>>
    ELSE (IF Head(s).nodeName = "#text" THEN Head(s).data
          ELSE textOfSeq(Head(s).childNodes)) \o textOfSeq(Tail(s))

textContent(n) == IF n.nodeName = "#text" THEN n.data ELSE textOfSeq(n.childNodes)

\* The descendants of a sequence of sibling nodes, in document order.
RECURSIVE descendantsOfSeq(_)
descendantsOfSeq(s) ==
    IF s = <<>> THEN <<>>
    ELSE <<Head(s)>> \o descendantsOfSeq(Head(s).childNodes)
                     \o descendantsOfSeq(Tail(s))

matches(e, selector) ==
    CASE selector = "tr" -> e.nodeName = "TR"
      [] selector = "td, th" -> e.nodeName \in {"TD", "TH"}
      [] selector = "li" -> e.nodeName = "LI"
      [] selector = "code" -> e.nodeName = "CODE"
      [] selector = "input[type=checkbox]" ->
            e.nodeName = "INPUT" /\ e.type = "checkbox"
      [] OTHER -> FALSE

\* Element.querySelectorAll: every matching descendant, in document order.
querySelectorAll(n, selector) ==
    SelectSeq(descendantsOfSeq(n.childNodes), LAMBDA e : matches(e, selector))

\* Element.children: the child nodes that are elements.
children(n) == SelectSeq(n.childNodes, LAMBDA e : e.nodeName # "#text")

\* String.prototype.trim, on a sequence of characters.
RECURSIVE trimStart(_)
trimStart(t) ==
    IF t # <<>> /\ Head(t) = " " THEN trimStart(Tail(t)) ELSE t

RECURSIVE trimEnd(_)
trimEnd(t) ==
    IF t # <<>> /\ t[Len(t)] = " " THEN trimEnd(SubSeq(t, 1, Len(t) - 1)) ELSE t

trim(t) == trimEnd(trimStart(t))

\* ------------------------------------------------------------ ADFBuilder
headingItem(level, text) == [type |-> "heading", level |-> level, text |-> text]
paragraphItem(text) == [type |-> "paragraph", text |-> text]
tableRowItem(cells) == [type |-> "tableRow", content |-> cells]
tableItem(rows) == [type |-> "table", content |-> rows]
mediaSingleItem(id, mediaType, layout) ==
    [type |-> "mediaSingle", id |-> id, mediaType |-> mediaType, layout |-> layout]
codeBlockItem(text) == [type |-> "codeBlock", text |-> text]
taskItem(text, checked) == [type |-> "taskItem", text |-> text, checked |-> checked]
taskListItem(items) == [type |-> "taskList", content |-> items]
listItem(content) == [type |-> "listItem", content |-> content]
orderedListItem(items) == [type |-> "orderedList", content |-> items]
bulletListItem(items) == [type |-> "bulletList", content |-> items]
blockquoteItem(text) == [type |-> "blockquote", text |-> text]
horizontalRuleItem == [type |-> "rule"]
addItem(builder, item) == Append(builder, item)

\* ------------------------------------------ the vault and its properties
Files == {"a.md", "b.md", "c.md"}
Paths == {"a.md", "b.md", "c.md", "c", "nowhere"}
NoFile == "<null>"

\* metadataCache.getFirstLinkpathDest(path, "."): a full path, or a link path
\* such as the bare name of a note.
getFirstLinkpathDest(path) ==
    CASE path \in Files -> path
      [] path = "c" -> "c.md"
      [] OTHER -> NoFile

\* vault.getAbstractFileByPath(path): a full vault path only.
getAbstractFileByPath(path) == IF path \in Files THEN path ELSE NoFile

\* The properties of a document; a key that is absent holds "".
NoProps == [pageId |-> "", spaceId |-> "", confluenceUrl |-> ""]
NoText == [properties |-> NoProps, body |-> ""]

\* PropertiesAdaptor: the metadata block at the top of the source text.
loadProperties(fileData) == fileData.properties
addProperties(properties, patch) ==
    [k \in DOMAIN properties |->
        IF k \in DOMAIN patch THEN patch[k] ELSE properties[k]]
toFile(properties, fileData) == [fileData EXCEPT !.properties = properties]

\* ------------------------------------------------- the rendered documents
Class(prefix, name) == <<prefix, name>>
Code(cls, text) == Elem("CODE", cls, <<TextNode(text)>>)
Pre(cls, text) == Elem("PRE", <<>>, <<Code(cls, text)>>)
Heading(name) == Elem(name, <<>>, <<TextNode(<<"t">>)>>)
Paragraph(text) == Elem("P", <<>>, IF text = <<>> THEN <<>> ELSE <<TextNode(text)>>)
Digit(i) == ToString(i)

\* A table cell labelled by its position; the cell at (1, 1) may hold a table.
InnerTable ==
    Elem("TABLE", <<>>, <<Elem("TBODY", <<>>,
        <<Elem("TR", <<>>, <<Elem("TD", <<>>, <<TextNode(<<"n">>)>>)>>)>>)>>)
Cell(i, j, nested) ==
    Elem(IF i = 1 THEN "TH" ELSE "TD", <<>>,
         IF nested /\ i = 1 /\ j = 1 THEN <<InnerTable>>
         ELSE <<TextNode(<<"r", Digit(i), "c", Digit(j)>>)>>)
Row(i, n, nested) == Elem("TR", <<>>, [j \in 1..n |-> Cell(i, j, nested)])
Table(lens, nested) ==
    Elem("TABLE", <<>>,
         <<Elem("TBODY", <<>>, [i \in 1..Len(lens) |-> Row(i, lens[i], nested)])>>)

\* A list item labelled by its position, of one of five shapes.
ItemKinds == {"plain", "checked", "unchecked", "nestedTask", "taskAndNested"}
NestedList(i) ==
    Elem("UL", <<>>, <<TaskLi(<<>>, <<Checkbox, TextNode(<<"s", Digit(i)>>)>>)>>)
Item(i, kind) ==
    CASE kind = "plain" -> Elem("LI", <<>>, <<TextNode(<<"i", Digit(i)>>)>>)
      [] kind = "checked" ->
            TaskLi(<<"x">>, <<Checkbox, TextNode(<<" ", "i", Digit(i)>>)>>)
      [] kind = "unchecked" ->
            TaskLi(<<>>, <<Checkbox, TextNode(<<" ", "i", Digit(i), " ">>)>>)
      [] kind = "nestedTask" ->
            Elem("LI", <<>>, <<TextNode(<<"i", Digit(i)>>), NestedList(i)>>)
      [] OTHER ->
            TaskLi(<<"x">>, <<Checkbox, TextNode(<<"i", Digit(i)>>), NestedList(i)>>)
List(name, kinds) ==
    Elem(name, <<>>, [i \in 1..Len(kinds) |-> Item(i, kinds[i])])

Mermaid == Class("language-", "mermaid")
Yaml == Class("language-", "yaml")
Js == Class("language-", "js")

\* The metadata block of an annotated document, as rendered.
MetadataBlock == Pre(<<Yaml>>, <<"m">>)

\* The markup of the documents of the vault.
BodyDom(body) ==
    CASE body = "A" ->
            <<Heading("H2"), Paragraph(<<"p">>), Table(<<1>>, FALSE),
              List("UL", <<"plain">>), List("OL", <<"checked">>),
              Elem("BLOCKQUOTE", <<>>, <<TextNode(<<"q">>)>>),
              Elem("HR", <<>>, <<>>), TextNode(<<" ">>)>>
      [] body = "B" -> <<Paragraph(<<"b">>)>>
      [] body = "C" -> <<Pre(<<Mermaid>>, <<"g">>)>>
      [] OTHER -> <<>>

\* MarkdownRenderer.render: the children the container holds once rendered.
render(text) ==
    (IF text.properties = NoProps THEN <<>> ELSE <<MetadataBlock>>)
        \o BodyDom(text.body)

\* ----------------------------------------------------- content directors
\* ParagraphDirector.addItems and TableDirector.addItems: the inline content
\* of the node, appended to the builder the director is bound to.
paragraphDirectorItems(p) ==
    IF textContent(p) = <<>> THEN <<>> ELSE <<paragraphItem(textContent(p))>>
tableDirectorItems(cell) ==
    IF textContent(cell) = <<>> THEN <<>> ELSE <<paragraphItem(textContent(cell))>>

\* ------------------------------------------------------ the remote client
SpaceId == "SPACE"
Base == "https://wiki"
PageId(n) == "p" \o ToString(n)
\* The response of page.createPage for the n-th page of the remote.
CreateResponse(n) ==
    [id |-> PageId(n), spaceId |-> SpaceId,
     _links |-> [base |-> Base, webui |-> "/pages/" \o ToString(n)]]
NoResponse == [id |-> "", spaceId |-> "", _links |-> [base |-> "", webui |-> ""]]

\* The responses of attachement.uploadFile.
Attachment(fileId) == [extensions |-> <<[fileId |-> fileId]>>]
UploadResponses ==
    { [results |-> <<Attachment("att1")>>],
      [results |-> <<Attachment("att1"), Attachment("att2")>>],
      [results |-> <<Attachment("")>>],
      [results |-> <<[extensions |-> <<>>]>>],
      [results |-> <<>>] }

\* What convertMermaidToImage returns: "<null>", or the fileId it found.
Null == "<null>"
NotInvoked == "<not invoked>"

\* ------------------------------------------------------------------ state
VARIABLES vault, pages, run

vars == <<vault, pages, run>>

Runs == 1..MaxRuns

Pending == <<[type |-> "pending"]>>

IdleRun ==
    [pc |-> "idle", kind |-> "", path |-> "", file |-> NoFile,
     fileData |-> NoText, properties |-> NoProps, response |-> NoResponse,
     confluenceUrl |-> "", text |-> NoText, input |-> <<>>, nodes |-> <<>>,
     unawaited |-> FALSE, idx |-> 0,
     builder |-> <<>>,
     marks |-> <<>>, pipes |-> <<>>, pageIds |-> <<>>,
     jobs |-> <<>>, rowLens |-> <<>>,
     pending |-> {}, slots |-> <<>>, pageId |-> "", adf |-> <<>>,
     result |-> "", error |-> "", trace |-> <<>>]

\* The vault before any call: b.md was linked in an earlier session.
LinkedProps(n) ==
    [pageId |-> PageId(n), spaceId |-> SpaceId,
     confluenceUrl |-> Base \o "/pages/" \o ToString(n)]

Init ==
    /\ vault = [f \in Files |->
                  [properties |-> IF f = "b.md" THEN LinkedProps(1) ELSE NoProps,
                   body |-> CASE f = "a.md" -> "A" [] f = "b.md" -> "B"
                              [] OTHER -> "C"]]
    /\ pages = <<[title |-> "b.md", updates |-> 1,
                  adf |-> paragraphDirectorItems(BodyDom("B")[1])]>>
    /\ run = [r \in Runs |-> IdleRun]

\* --------------------------------------------------------- getConfluenceLink
truthy(v) == v # "" /\ v # Null

\* The calls are numbered in the order they are made.
NextCall(r) ==
    /\ run[r].pc = "idle"
    /\ \A q \in 1..(r - 1) : run[q].pc # "idle"

\* convertObs2Adf: render is called and not awaited, and htmlToAdf takes the
\* children the container holds at that moment: a prefix of the rendered
\* children.  nodes holds the rendered children and unawaited marks that the
\* list htmlToAdf iterates may end before any of them (see HtmlToAdfReturn).
convertObs2Adf(rec, text) ==
    [rec EXCEPT !.pc = "traverse",
                !.text = text,
                !.input = render(text),
                !.nodes = render(text),
                !.unawaited = TRUE,
                !.idx = 1, !.builder = <<>>, !.marks = <<>>, !.pipes = <<>>,
                !.pageIds = <<>>,
                !.trace = Append(@, "convertObs2Adf")]

\* A call that rejects when the path names no file.
noLinkRejects(rec) == [rec EXCEPT !.pc = "rejected", !.error = "no file"]

\* Lines 64-66: return "#".
noLink(rec) == [rec EXCEPT !.pc = "done", !.result = "#"]

\* Lines 61-67: the path is resolved, and the file is read.
getConfluenceLink(r, path) ==
    /\ NextCall(r)
    /\ LET file == getFirstLinkpathDest(path)
           rec == [run[r] EXCEPT !.kind = "link", !.path = path, !.file = file]
       IN run' = [run EXCEPT ![r] =
                    IF file = NoFile
                    THEN noLink(rec)
                    ELSE [rec EXCEPT !.pc = "read",
                                     !.trace = Append(@, "vault.read")]]
    /\ UNCHANGED <<vault, pages>>

\* A call that never takes the fast path.
cachedNever(properties) == FALSE

\* Line 71.
cached(properties) == truthy(properties.confluenceUrl)

\* The URL without its base.
linkOfWebuiOnly(response) == response._links.webui

\* Line 79.
linkOf(response) == response._links.base \o response._links.webui

\* Lines 67-78: the file is read; a cached URL is returned, else a page is asked for.
ReadResolve(r) ==
    /\ run[r].pc = "read"
    /\ LET fileData == vault[run[r].file]
           properties == loadProperties(fileData)
           rec == [run[r] EXCEPT !.fileData = fileData, !.properties = properties]
       IN run' = [run EXCEPT ![r] =
                    IF cached(properties)
                    THEN [rec EXCEPT !.pc = "done",
                                     !.result = properties.confluenceUrl]
                    ELSE [rec EXCEPT !.pc = "createPage",
                                     !.trace = Append(@, "createPage")]]
    /\ UNCHANGED <<vault, pages>>

ReadReject(r) ==
    /\ run[r].pc = "read"
    /\ run' = [run EXCEPT ![r].pc = "rejected", ![r].error = "vault.read"]
    /\ UNCHANGED <<vault, pages>>

\* Lines 75-86: the page exists; the properties are extended and written back.
CreatePageResolve(r) ==
    /\ run[r].pc = "createPage"
    /\ LET response == CreateResponse(Len(pages) + 1)
           confluenceUrl == linkOf(response)
       IN /\ pages' = Append(pages, [title |-> run[r].file, updates |-> 0,
                                     adf |-> <<>>])
          /\ run' = [run EXCEPT ![r] =
                [@ EXCEPT !.pc = "modify",
                          !.response = response,
                          !.confluenceUrl = confluenceUrl,
                          !.properties = addProperties(@,
                              [pageId |-> response.id,
                               spaceId |-> response.spaceId,
                               confluenceUrl |-> confluenceUrl]),
                          !.trace = Append(@, "vault.modify")]]
    /\ UNCHANGED vault

\* A call that goes on to the metadata write although createPage rejected.
CreatePageRejectIgnored(r) ==
    /\ run[r].pc = "createPage"
    /\ run' = [run EXCEPT ![r].pc = "modify", ![r].error = "createPage",
                          ![r].trace = Append(@, "vault.modify")]
    /\ UNCHANGED <<vault, pages>>

\* Line 75: the rejection is caught nowhere in getConfluenceLink.
CreatePageReject(r) ==
    /\ run[r].pc = "createPage"
    /\ run' = [run EXCEPT ![r].pc = "rejected", ![r].error = "createPage"]
    /\ UNCHANGED <<vault, pages>>

\* Lines 86-88: the annotated text is in the vault; fileData is converted.
ModifyResolve(r) ==
    /\ run[r].pc = "modify"
    /\ vault' = [vault EXCEPT ![run[r].file] =
                    toFile(run[r].properties, run[r].fileData)]
    /\ run' = [run EXCEPT ![r] = convertObs2Adf(@, run[r].fileData)]
    /\ UNCHANGED pages

ModifyReject(r) ==
    /\ run[r].pc = "modify"
    /\ run' = [run EXCEPT ![r].pc = "rejected", ![r].error = "vault.modify"]
    /\ UNCHANGED <<vault, pages>>

\* Lines 58, 90-94: the traversal is over; the page body is sent.
HtmlToAdfReturn(r) ==
    /\ run[r].pc = "traverse"
    /\ run[r].idx > Len(run[r].nodes) \/ run[r].unawaited
    /\ run' = [run EXCEPT ![r] =
                IF @.kind = "link"
                THEN [@ EXCEPT !.pc = "updatePage", !.adf = run[r].builder,
                               !.trace = Append(@, "updatePage")]
                ELSE [@ EXCEPT !.pc = "done", !.adf = run[r].builder]]
    /\ UNCHANGED <<vault, pages>>

PageIndex(pageId) == CHOOSE n \in 1..Len(pages) : PageId(n) = pageId

\* Lines 90-97: the page holds the document; the URL is returned.
UpdatePageResolve(r) ==
    /\ run[r].pc = "updatePage"
    /\ pages' = [pages EXCEPT ![PageIndex(run[r].properties.pageId)] =
                    [@ EXCEPT !.updates = @ + 1, !.adf = run[r].adf]]
    /\ run' = [run EXCEPT ![r].pc = "done", ![r].result = run[r].confluenceUrl]
    /\ UNCHANGED vault

UpdatePageReject(r) ==
    /\ run[r].pc = "updatePage"
    /\ run' = [run EXCEPT ![r].pc = "rejected", ![r].error = "updatePage"]
    /\ UNCHANGED <<vault, pages>>

\* ------------------------------------------------------------------ traverse
node(r) == run[r].nodes[run[r].idx]

AtNode(r, names) ==
    /\ run[r].pc = "traverse"
    /\ run[r].idx <= Len(run[r].nodes)
    /\ node(r).nodeName \in names

HeadingNames == {"H1", "H2", "H3", "H4", "H5", "H6"}
Recognized == HeadingNames \cup
    {"TABLE", "PRE", "P", "OL", "UL", "BLOCKQUOTE", "HR"}

\* Number(node.nodeName[1])
headingLevel(name) ==
    CASE name = "H1" -> 1 [] name = "H2" -> 2 [] name = "H3" -> 3
      [] name = "H4" -> 4 [] name = "H5" -> 5 [] OTHER -> 6

\* The await of traverse returns: the loop of htmlToAdf goes to the next child.
advance(rec, builder, pipe) ==
    [rec EXCEPT !.pc = "traverse", !.idx = @ + 1, !.builder = builder,
                !.marks = Append(@, Len(builder)), !.pipes = Append(@, pipe),
                !.pageIds = Append(@, rec.pageId),
                !.jobs = <<>>, !.rowLens = <<>>, !.pending = {}, !.slots = <<>>,
                !.pageId = ""]

Step(r, rec) == run' = [run EXCEPT ![r] = rec] /\ UNCHANGED <<vault, pages>>

\* Lines 144-156.
TraverseHeading(r) ==
    /\ AtNode(r, HeadingNames)
    /\ Step(r, advance(run[r],
            addItem(run[r].builder,
                    headingItem(headingLevel(node(r).nodeName),
                                textContent(node(r)))),
            NotInvoked))

\* Lines 290-292.
TraverseBlockquote(r) ==
    /\ AtNode(r, {"BLOCKQUOTE"})
    /\ Step(r, advance(run[r],
            addItem(run[r].builder, blockquoteItem(textContent(node(r)))),
            NotInvoked))

\* Lines 293-295.
TraverseHr(r) ==
    /\ AtNode(r, {"HR"})
    /\ Step(r, advance(run[r], addItem(run[r].builder, horizontalRuleItem),
                       NotInvoked))

\* The switch has no case for the node: nothing is appended.
TraverseOther(r) ==
    /\ run[r].pc = "traverse"
    /\ run[r].idx <= Len(run[r].nodes)
    /\ node(r).nodeName \notin Recognized
    /\ Step(r, advance(run[r], run[r].builder, NotInvoked))

\* Lines 223-235: the director works on the builder of the traversal.
TraverseP(r) ==
    /\ AtNode(r, {"P"})
    /\ Step(r, [run[r] EXCEPT !.pc = "paragraph",
                              !.trace = Append(@, "ParagraphDirector")])

ParagraphResolve(r) ==
    /\ run[r].pc = "paragraph"
    /\ Step(r, advance(run[r],
                       run[r].builder \o paragraphDirectorItems(node(r)),
                       NotInvoked))

\* A traverse that catches the rejection and goes on with the next node.
directorSwallowed(rec) ==
    advance([rec EXCEPT !.error = "director"], rec.builder, NotInvoked)

\* A rejection of a director is caught nowhere in traverse, htmlToAdf,
\* convertObs2Adf or getConfluenceLink.
directorRejected(rec) == [rec EXCEPT !.pc = "rejected", !.error = "director"]

ParagraphReject(r) ==
    /\ run[r].pc = "paragraph"
    /\ Step(r, directorRejected(run[r]))

\* ------------------------------------------------------------------ tables
RECURSIVE flatten(_)
flatten(ss) == IF ss = <<>> THEN <<>> ELSE Head(ss) \o flatten(Tail(ss))

RECURSIVE sumTo(_, _)
sumTo(lens, n) == IF n = 0 THEN 0 ELSE lens[n] + sumTo(lens, n - 1)

tableRows(n) == querySelectorAll(n, "tr")
rowCells(row) == querySelectorAll(row, "td, th")

\* Results kept in the order the promises settle.
storeResultInCompletionOrder(slots, i, content) ==
    [slots EXCEPT ![CHOOSE k \in 1..Len(slots) :
                        /\ slots[k] = <<[type |-> "pending"]>>
                        /\ \A j \in 1..(k - 1) : slots[j] # <<[type |-> "pending"]>>]
                  = content]

\* Promise.all keeps each result at the index of its promise.
storeResult(slots, i, content) == [slots EXCEPT ![i] = content]

\* Lines 158-181: one director call per cell of each row, all in flight.
TraverseTable(r) ==
    /\ AtNode(r, {"TABLE"})
    /\ LET rows == tableRows(node(r))
           cells == [i \in 1..Len(rows) |-> rowCells(rows[i])]
           jobs == flatten(cells)
       IN Step(r, [run[r] EXCEPT
                !.pc = "table",
                !.jobs = jobs,
                !.rowLens = [i \in 1..Len(rows) |-> Len(cells[i])],
                !.pending = 1..Len(jobs),
                !.slots = [i \in 1..Len(jobs) |-> Pending],
                !.trace = @ \o [i \in 1..Len(jobs) |-> "TableDirector"]])

\* Lines 173-178: the director of one cell is done; cellAdf.build().
CellResolve(r, i) ==
    /\ run[r].pc = "table"
    /\ i \in run[r].pending
    /\ Step(r, [run[r] EXCEPT
                !.pending = @ \ {i},
                !.slots = storeResult(@, i, tableDirectorItems(run[r].jobs[i]))])

CellReject(r, i) ==
    /\ run[r].pc = "table"
    /\ i \in run[r].pending
    /\ Step(r, directorRejected(run[r]))

\* Lines 182-186: every row is complete; one table is appended.
tableContent(slots, rowLens) ==
    [i \in 1..Len(rowLens) |->
        tableRowItem(SubSeq(slots, sumTo(rowLens, i - 1) + 1, sumTo(rowLens, i)))]

TableJoin(r) ==
    /\ run[r].pc = "table"
    /\ run[r].pending = {}
    /\ Step(r, advance(run[r],
            addItem(run[r].builder,
                    tableItem(tableContent(run[r].slots, run[r].rowLens))),
            NotInvoked))

\* ------------------------------------------------------------------- lists
\* The items counted among the children of the list only.
isTaskListByChildren(n) ==
    Len(children(n)) = Len(querySelectorAll(n, "input[type=checkbox]"))

\* Lines 238-240.
isTaskList(n) ==
    Len(querySelectorAll(n, "li")) = Len(querySelectorAll(n, "input[type=checkbox]"))

\* Boolean(li.getAttr("data-task"))
dataTaskSet(li) == li.dataTask # <<>> /\ li.dataTask[1] # <<>>

\* Lines 260-263: p.append(child) moves every child of the item into p.
syntheticP(li) == Elem("P", <<>>, li.childNodes)
detachItems(n) ==
    [n EXCEPT !.childNodes =
        [i \in 1..Len(n.childNodes) |->
            IF n.childNodes[i].nodeName = "#text" THEN n.childNodes[i]
            ELSE [n.childNodes[i] EXCEPT !.childNodes = <<>>]]]

\* Lines 253-258, 271-276: no director runs for a task list.
TraverseTaskList(r) ==
    /\ AtNode(r, {"OL", "UL"})
    /\ isTaskList(node(r))
    /\ LET lis == children(node(r))
           listItems == [i \in 1..Len(lis) |->
                            taskItem(trim(textContent(lis[i])),
                                     dataTaskSet(lis[i]))]
       IN Step(r, advance(run[r],
                          addItem(run[r].builder, taskListItem(listItems)),
                          NotInvoked))

\* Lines 242-265: one director call per item, all in flight.
TraverseList(r) ==
    /\ AtNode(r, {"OL", "UL"})
    /\ ~isTaskList(node(r))
    /\ LET lis == children(node(r))
       IN Step(r, [run[r] EXCEPT
                !.pc = "list",
                !.nodes = [@ EXCEPT ![run[r].idx] = detachItems(@)],
                !.jobs = [i \in 1..Len(lis) |-> syntheticP(lis[i])],
                !.pending = 1..Len(lis),
                !.slots = [i \in 1..Len(lis) |-> Pending],
                !.trace = @ \o [i \in 1..Len(lis) |-> "ParagraphDirector"]])

\* Lines 265-267: the director of one item is done; listAdf.build().
ItemResolve(r, i) ==
    /\ run[r].pc = "list"
    /\ i \in run[r].pending
    /\ Step(r, [run[r] EXCEPT
                !.pending = @ \ {i},
                !.slots = storeResult(@, i,
                                      paragraphDirectorItems(run[r].jobs[i]))])

ItemReject(r, i) ==
    /\ run[r].pc = "list"
    /\ i \in run[r].pending
    /\ Step(r, directorRejected(run[r]))

\* A list element built without waiting for the directors of its items.
ListJoinEarly(r) ==
    /\ run[r].pc = "list"
    /\ LET listItems == [i \in 1..Len(run[r].slots) |-> listItem(run[r].slots[i])]
       IN Step(r, advance(run[r],
                addItem(run[r].builder,
                        IF node(r).nodeName = "OL"
                        THEN orderedListItem(listItems)
                        ELSE bulletListItem(listItems)),
                NotInvoked))

\* Lines 267, 278-288.
ListJoin(r) ==
    /\ run[r].pc = "list"
    /\ run[r].pending = {}
    /\ LET listItems == [i \in 1..Len(run[r].slots) |-> listItem(run[r].slots[i])]
       IN Step(r, advance(run[r],
                addItem(run[r].builder,
                        IF node(r).nodeName = "OL"
                        THEN orderedListItem(listItems)
                        ELSE bulletListItem(listItems)),
                NotInvoked))

\* ------------------------------------------------------------- code blocks
contains(classList, cls) == \E i \in 1..Len(classList) : classList[i] = cls

\* Lines 191-193: the first class that starts with "language-", less the prefix.
language(codeElement) ==
    LET tagged == SelectSeq(codeElement.classList, LAMBDA c : c[1] = "language-")
    IN IF tagged = <<>> THEN "" ELSE tagged[1][2]

\* node.querySelector("code"): <<>> or the first match.
querySelector(n, selector) ==
    LET found == querySelectorAll(n, selector)
    IN IF found = <<>> THEN <<>> ELSE <<found[1]>>

\* Line 190.
codeText(codeElement) == textContent(codeElement)

\* Two slips of lines 218-220: no test at all, and a test of the language
\* tag in place of the class list.
codeBlockAlways(builder, codeElement) ==
    addItem(builder, codeBlockItem(codeText(codeElement)))
codeBlockUnlessYamlLanguage(builder, codeElement) ==
    IF language(codeElement) # "yaml"
    THEN addItem(builder, codeBlockItem(codeText(codeElement)))
    ELSE builder

\* Lines 218-220.
codeBlockUnlessYaml(builder, codeElement) ==
    IF ~contains(codeElement.classList, Yaml)
    THEN addItem(builder, codeBlockItem(codeText(codeElement)))
    ELSE builder

codeElementOf(r) == querySelector(node(r), "code")[1]

\* The diagram was not converted: lines 218-222.
fallThrough(r, pipe) ==
    advance(run[r], codeBlockUnlessYaml(run[r].builder, codeElementOf(r)), pipe)

\* Lines 187-200, 218-222.
TraversePre(r) ==
    /\ AtNode(r, {"PRE"})
    /\ Step(r,
        IF querySelector(node(r), "code") = <<>>
        THEN advance(run[r], run[r].builder, NotInvoked)
        ELSE IF language(codeElementOf(r)) = "mermaid"
                /\ getAbstractFileByPath(run[r].path) # NoFile
        THEN [run[r] EXCEPT !.pc = "preRead", !.trace = Append(@, "vault.read")]
        ELSE fallThrough(r, NotInvoked))

\* A traverse that does not test the page id.
shouldConvertAlways(pageId) == TRUE

\* Lines 200-206: the file is read; with a page id the diagram is rendered.
shouldConvert(pageId) == truthy(pageId)

PreReadResolve(r) ==
    /\ run[r].pc = "preRead"
    /\ LET fileData == vault[getAbstractFileByPath(run[r].path)]
           pageId == loadProperties(fileData).pageId
       IN Step(r,
            IF shouldConvert(pageId)
            THEN [run[r] EXCEPT !.pc = "render", !.pageId = pageId,
                                !.trace = Append(@, "mermaid.render")]
            ELSE fallThrough(r, NotInvoked))

\* Lines 213-215: the error is logged.
PreReadReject(r) ==
    /\ run[r].pc = "preRead"
    /\ Step(r, fallThrough(r, NotInvoked))

\* A pipeline without its catch: the rejection reaches traverse and its caller.
pipelineRejected(r) ==
    [run[r] EXCEPT !.pc = "rejected", !.error = "convertMermaidToImage"]

\* Lines 136-139: the error is caught and logged; null is returned.
pipelineFailed(r) == fallThrough(r, Null)

\* Lines 106-129: the diagram is rendered; the image is uploaded.
RenderResolve(r) ==
    /\ run[r].pc = "render"
    /\ Step(r, [run[r] EXCEPT !.pc = "uploadFile",
                              !.trace = Append(@, "uploadFile")])

\* Lines 136-139: the renderer rejects, or its markup holds no element.
RenderReject(r) ==
    /\ run[r].pc = "render"
    /\ Step(r, pipelineFailed(r))

\* Lines 131-135.
fileIdOf(attachmentResponse) ==
    IF attachmentResponse.results # <<>>
       /\ attachmentResponse.results[1].extensions # <<>>
    THEN attachmentResponse.results[1].extensions[1].fileId
    ELSE Null

\* Lines 206-210 without the break: the code block follows the image.
mediaThenFallThrough(r, fileId) ==
    IF truthy(fileId)
    THEN advance(run[r],
                 codeBlockUnlessYaml(
                     addItem(run[r].builder,
                             mediaSingleItem(fileId, "attachment", "wide")),
                     codeElementOf(r)),
                 fileId)
    ELSE fallThrough(r, fileId)

\* Lines 206-210.
mediaOrFallThrough(r, fileId) ==
    IF truthy(fileId)
    THEN advance(run[r],
                 addItem(run[r].builder,
                         mediaSingleItem(fileId, "attachment", "wide")),
                 fileId)
    ELSE fallThrough(r, fileId)

UploadResolve(r, attachmentResponse) ==
    /\ run[r].pc = "uploadFile"
    /\ Step(r, mediaOrFallThrough(r, fileIdOf(attachmentResponse)))

UploadReject(r) ==
    /\ run[r].pc = "uploadFile"
    /\ Step(r, pipelineFailed(r))

\* ------------------------------------------------------------ specification
Traverse(r) ==
    \/ TraverseHeading(r) \/ TraverseBlockquote(r) \/ TraverseHr(r)
    \/ TraverseOther(r)
    \/ TraverseP(r) \/ ParagraphResolve(r) \/ ParagraphReject(r)
    \/ TraverseTable(r) \/ TableJoin(r)
    \/ \E i \in 1..Len(run[r].jobs) : CellResolve(r, i) \/ CellReject(r, i)
    \/ TraverseTaskList(r) \/ TraverseList(r) \/ ListJoin(r)
    \/ \E i \in 1..Len(run[r].jobs) : ItemResolve(r, i) \/ ItemReject(r, i)
    \/ TraversePre(r) \/ PreReadResolve(r) \/ PreReadReject(r)
    \/ RenderResolve(r) \/ RenderReject(r)
    \/ UploadReject(r)
    \/ \E resp \in UploadResponses : UploadResolve(r, resp)
    \/ HtmlToAdfReturn(r)

Next ==
    \E r \in Runs :
        \/ \E path \in Paths : getConfluenceLink(r, path)
        \/ ReadResolve(r) \/ ReadReject(r)
        \/ CreatePageResolve(r) \/ CreatePageReject(r)
        \/ ModifyResolve(r) \/ ModifyReject(r)
        \/ UpdatePageResolve(r) \/ UpdatePageReject(r)
        \/ Traverse(r)

Spec == Init /\ [][Next]_vars

\* ------------------------------------------- htmlToAdf on a given container
\* The containers handed to htmlToAdf directly (lines 48-59): every single
\* node of every shape, and every sequence of up to MaxTop common nodes.
PreNodes ==
    {Elem("PRE", <<>>, <<TextNode(<<"g">>)>>)} \cup
    {Pre(cls, <<"g">>) :
        cls \in {<<>>, <<Js>>, <<Yaml>>, <<Mermaid>>, <<Mermaid, Yaml>>,
                 <<Yaml, Mermaid>>, <<Class("", "hljs"), Mermaid>>}}
TableNodes ==
    {Table(lens, nested) :
        lens \in SeqsUpTo(0..MaxCols, 0, MaxRows), nested \in BOOLEAN}
ListNodes ==
    {List(name, kinds) :
        name \in {"OL", "UL"}, kinds \in SeqsUpTo(ItemKinds, 0, MaxItems)}
SingleNodes ==
    {Heading(h) : h \in HeadingNames} \cup
    {Paragraph(<<"p">>), Paragraph(<<>>),
     Elem("BLOCKQUOTE", <<>>, <<TextNode(<<"q">>)>>), Elem("HR", <<>>, <<>>),
     Elem("DIV", <<>>, <<TextNode(<<"d">>)>>), TextNode(<<" ">>)} \cup
    PreNodes \cup TableNodes \cup ListNodes
CommonNodes ==
    {Heading("H3"), Paragraph(<<"p">>), Table(<<1>>, FALSE),
     List("UL", <<"plain">>), List("OL", <<"checked">>),
     Pre(<<Js>>, <<"g">>), Pre(<<Yaml>>, <<"m">>), Pre(<<Mermaid>>, <<"g">>),
     Elem("BLOCKQUOTE", <<>>, <<TextNode(<<"q">>)>>), Elem("HR", <<>>, <<>>),
     Elem("DIV", <<>>, <<TextNode(<<"d">>)>>)}
Containers ==
    {<<n>> : n \in SingleNodes} \cup SeqsUpTo(CommonNodes, 0, MaxTop)

\* htmlToAdf(container, filePath) is called on c.md, linked or not, under its
\* full path or its link path.
InitT ==
    /\ \E linked \in BOOLEAN :
        /\ vault = [f \in Files |->
                      [properties |-> IF f = "b.md" \/ (f = "c.md" /\ linked)
                                      THEN LinkedProps(IF f = "b.md" THEN 1 ELSE 2)
                                      ELSE NoProps,
                       body |-> CASE f = "a.md" -> "A" [] f = "b.md" -> "B"
                                  [] OTHER -> "C"]]
        /\ pages = [n \in 1..(IF linked THEN 2 ELSE 1) |->
                      [title |-> IF n = 1 THEN "b.md" ELSE "c.md",
                       updates |-> 0, adf |-> <<>>]]
    /\ \E container \in Containers, path \in {"c.md", "c"} :
          run = [r \in Runs |->
                   IF r = 1
                   THEN [IdleRun EXCEPT !.pc = "traverse", !.kind = "html",
                                        !.path = path,
                                        !.file = getFirstLinkpathDest(path),
                                        !.input = container,
                                        !.nodes = container, !.idx = 1]
                   ELSE IdleRun]

NextT == \E r \in Runs : Traverse(r)

SpecT == InitT /\ [][NextT]_vars

\* ================================================================== claims
inTrace(rec, call) == \E k \in 1..Len(rec.trace) : rec.trace[k] = call
callsOf(rec, calls) == SelectSeq(rec.trace, LAMBDA e : e \in calls)

\* The nodes a run has finished with, and what each of them appended.
processed(rec) == 1..Len(rec.marks)
seg(rec, i) ==
    SubSeq(rec.builder, (IF i = 1 THEN 0 ELSE rec.marks[i - 1]) + 1, rec.marks[i])
types(items) == [k \in 1..Len(items) |-> items[k].type]
hasType(items, type) == \E k \in 1..Len(items) : items[k].type = type
codeOf(n) == querySelectorAll(n, "code")[1]
isCodeBlockNode(n) == n.nodeName = "PRE" /\ querySelectorAll(n, "code") # <<>>
yamlClassed(n) == contains(codeOf(n).classList, Yaml)
returnedId(pipe) == pipe \notin {NotInvoked, Null, ""}

\* ---- C1
linkCalls == {"createPage", "vault.modify", "convertObs2Adf", "updatePage"}
firstLinkDone(rec) ==
    /\ rec.kind = "link" /\ rec.pc = "done" /\ rec.file # NoFile
    /\ rec.fileData.properties.confluenceUrl = ""

\* C1: a getConfluenceLink call that found no cached URL and has returned
\* made exactly one createPage call, then one vault.modify, then one
\* convertObs2Adf, then one updatePage, and returned base + webui of the
\* createPage response.
C1_FirstLink ==
    \A r \in Runs :
        firstLinkDone(run[r]) =>
            /\ callsOf(run[r], linkCalls) =
                 <<"createPage", "vault.modify", "convertObs2Adf", "updatePage">>
            /\ run[r].result =
                 run[r].response._links.base \o run[r].response._links.webui
            /\ run[r].response._links.base # ""

C1_Witness ==
    \E r \in Runs : firstLinkDone(run[r]) /\ Len(run[r].adf) > 1

\* ---- C2
fastDone(rec) ==
    /\ rec.kind = "link" /\ rec.pc = "done" /\ rec.file # NoFile
    /\ rec.fileData.properties.confluenceUrl # ""

\* C2: a getConfluenceLink call that read a cached URL returns that URL after
\* the file read alone (no createPage, updatePage, uploadFile or vault.modify
\* call), and two such calls on a document for which no page is being created
\* return the same URL.
C2_Idempotent ==
    /\ \A r \in Runs :
          fastDone(run[r]) =>
              /\ run[r].result = run[r].fileData.properties.confluenceUrl
              /\ run[r].trace = <<"vault.read">>
    /\ \A r1, r2 \in Runs :
          (/\ fastDone(run[r1]) /\ fastDone(run[r2])
           /\ run[r1].file = run[r2].file
           /\ \A q \in Runs :
                 run[q].file = run[r1].file => ~inTrace(run[q], "createPage"))
          => run[r1].result = run[r2].result

C2_Witness ==
    /\ fastDone(run[1]) /\ fastDone(run[2])
    /\ run[1].file = "b.md" /\ run[2].file = "b.md"
    /\ vault["b.md"].properties = LinkedProps(1)

\* ---- C3
\* C3 (as claimed): createPage is called at most once for a document, and
\* its metadata block is written at most once, over all calls.
C3_CreatedAtMostOnce ==
    \A f \in Files :
        /\ Cardinality({r \in Runs :
              run[r].file = f /\ inTrace(run[r], "createPage")}) <= 1
        /\ Cardinality({r \in Runs :
              run[r].file = f /\ inTrace(run[r], "vault.modify")}) <= 1

\* ---- C4
htmlDone(rec) == rec.kind = "html" /\ rec.pc = "done"

\* C4 (as claimed): htmlToAdf returns exactly one element per top-level node
\* of a recognized kind.
C4_OnePerRecognized ==
    \A r \in Runs :
        htmlDone(run[r]) =>
            Len(run[r].adf) =
                Cardinality({i \in 1..Len(run[r].input) :
                                run[r].input[i].nodeName \in Recognized})

allowedTypes(n) ==
    CASE n.nodeName \in HeadingNames -> {<<"heading">>}
      [] n.nodeName = "TABLE" -> {<<"table">>}
      [] n.nodeName = "OL" -> {<<"orderedList">>, <<"taskList">>}
      [] n.nodeName = "UL" -> {<<"bulletList">>, <<"taskList">>}
      [] n.nodeName = "BLOCKQUOTE" -> {<<"blockquote">>}
      [] n.nodeName = "HR" -> {<<"rule">>}
      [] n.nodeName = "P" -> {types(paragraphDirectorItems(n))}
      [] n.nodeName = "PRE" ->
            IF ~isCodeBlockNode(n) THEN {<<>>}
            ELSE IF yamlClassed(n) THEN {<<>>, <<"mediaSingle">>}
            ELSE {<<"codeBlock">>, <<"mediaSingle">>}
      [] OTHER -> {<<>>}

\* C4 (amended): the sequence htmlToAdf returns is, in input order, exactly
\* one element for each H1-H6, TABLE, OL, UL, BLOCKQUOTE and HR node and for
\* each PRE node that has a code element without the yaml class; nothing
\* (or one MediaSingle) for a PRE whose code element has the yaml class,
\* nothing for a PRE without code element or a node of another kind, and for
\* a P node the elements its director appended.
C4_Contributions ==
    \A r \in Runs :
        htmlDone(run[r]) =>
            /\ Len(run[r].marks) = Len(run[r].input)
            /\ run[r].adf = run[r].builder
            /\ Len(run[r].input) > 0 =>
                    run[r].marks[Len(run[r].input)] = Len(run[r].adf)
            /\ \A i \in 1..Len(run[r].input) :
                  types(seg(run[r], i)) \in allowedTypes(run[r].input[i])

C4_Witness ==
    \E r \in Runs :
        /\ htmlDone(run[r])
        /\ Len(run[r].input) = 2
        /\ run[r].input[1] = Pre(<<Yaml>>, <<"m">>)
        /\ run[r].input[2].nodeName = "H3"
        /\ types(run[r].adf) = <<"heading">>

\* ---- C5
\* The rows of a table itself, and the cells of a row itself.
ownRows(t) ==
    flatten([k \in 1..Len(children(t)) |->
        IF children(t)[k].nodeName = "TR" THEN <<children(t)[k]>>
        ELSE IF children(t)[k].nodeName \in {"THEAD", "TBODY", "TFOOT"}
        THEN SelectSeq(children(children(t)[k]), LAMBDA e : e.nodeName = "TR")
        ELSE <<>>])
ownCells(row) == SelectSeq(children(row), LAMBDA e : e.nodeName \in {"TD", "TH"})

\* C5 (as claimed): a table of R rows appends one Table of R TableRows, each
\* holding the converted content of the cells of its row, in source order,
\* whatever the cells hold.
C5_RowsAndCells ==
    \A r \in Runs : \A i \in processed(run[r]) :
        run[r].input[i].nodeName = "TABLE" =>
            seg(run[r], i) =
                <<tableItem(
                    [a \in 1..Len(ownRows(run[r].input[i])) |->
                        tableRowItem(
                            [b \in 1..Len(ownCells(ownRows(run[r].input[i])[a])) |->
                                tableDirectorItems(
                                    ownCells(ownRows(run[r].input[i])[a])[b])])])>>

\* ---- C6
isListNode(n) == n.nodeName \in {"OL", "UL"}
itemChildren(n) == SelectSeq(children(n), LAMBDA e : e.nodeName = "LI")
checkboxes(n) == querySelectorAll(n, "input[type=checkbox]")
convertedAsTaskList(rec, i) == types(seg(rec, i)) = <<"taskList">>

\* C6 (as claimed): a list is converted as a task list iff the number of its
\* item children equals the number of its checkbox descendants.
C6_ItemChildren ==
    \A r \in Runs : \A i \in processed(run[r]) :
        isListNode(run[r].input[i]) =>
            (convertedAsTaskList(run[r], i) <=>
                Len(itemChildren(run[r].input[i])) = Len(checkboxes(run[r].input[i])))

\* C6 (amended): a list is converted as a task list iff the number of li
\* elements anywhere under it, those of nested lists included, equals the
\* number of its checkbox descendants.
C6_ItemDescendants ==
    \A r \in Runs : \A i \in processed(run[r]) :
        isListNode(run[r].input[i]) =>
            (convertedAsTaskList(run[r], i) <=>
                Len(querySelectorAll(run[r].input[i], "li")) =
                    Len(checkboxes(run[r].input[i])))

\* A list with a nested list: one item child, one checkbox, two li elements.
C6_Witness ==
    \E r \in Runs : \E i \in processed(run[r]) :
        /\ run[r].input[i] = List("UL", <<"nestedTask">>)
        /\ types(seg(run[r], i)) = <<"bulletList">>

\* ---- C7
isMermaidNode(n) == isCodeBlockNode(n) /\ language(codeOf(n)) = "mermaid"

\* C7 (as claimed): a mermaid code block appends one MediaSingle (the
\* returned id, layout "wide") when the pipeline returns an id, and one
\* CodeBlock with the diagram source otherwise.
C7_MediaOrCodeBlock ==
    \A r \in Runs : \A i \in processed(run[r]) :
        isMermaidNode(run[r].input[i]) =>
            seg(run[r], i) =
                IF returnedId(run[r].pipes[i])
                THEN <<mediaSingleItem(run[r].pipes[i], "attachment", "wide")>>
                ELSE <<codeBlockItem(textContent(codeOf(run[r].input[i])))>>

\* C7 (amended): as claimed, except that when the pipeline fails and the
\* code element also has the class language-yaml, nothing is appended.
C7_MediaOrCodeBlockUnlessYaml ==
    \A r \in Runs : \A i \in processed(run[r]) :
        isMermaidNode(run[r].input[i]) =>
            seg(run[r], i) =
                IF returnedId(run[r].pipes[i])
                THEN <<mediaSingleItem(run[r].pipes[i], "attachment", "wide")>>
                ELSE IF yamlClassed(run[r].input[i]) THEN <<>>
                ELSE <<codeBlockItem(textContent(codeOf(run[r].input[i])))>>

\* Two diagrams of one document: the first converted, the second not.
C7_Witness ==
    \E r \in Runs :
        /\ htmlDone(run[r])
        /\ run[r].input = <<Pre(<<Mermaid>>, <<"g">>), Pre(<<Mermaid>>, <<"g">>)>>
        /\ run[r].pipes = <<"att1", Null>>
        /\ types(run[r].adf) = <<"mediaSingle", "codeBlock">>

\* ---- C8
\* C8: a code block whose code element has the class language-yaml appends
\* no CodeBlock, on the diagram fallback path too; any other code block
\* that appends no MediaSingle appends exactly one CodeBlock with its text.
C8_YamlSuppressed ==
    \A r \in Runs : \A i \in processed(run[r]) :
        isCodeBlockNode(run[r].input[i]) =>
            /\ yamlClassed(run[r].input[i]) =>
                  ~hasType(seg(run[r], i), "codeBlock")
            /\ (~yamlClassed(run[r].input[i])
                    /\ ~hasType(seg(run[r], i), "mediaSingle")) =>
                  seg(run[r], i) =
                      <<codeBlockItem(textContent(codeOf(run[r].input[i])))>>

\* The diagram fallback path of a code element with both classes.
C8_Witness ==
    \E r \in Runs : \E i \in processed(run[r]) :
        /\ run[r].input[i] = Pre(<<Mermaid, Yaml>>, <<"g">>)
        /\ run[r].pipes[i] = Null
        /\ seg(run[r], i) = <<>>

\* ---- C9
fatal == {"director", "createPage", "updatePage"}

\* C9: once a content director, createPage or updatePage has rejected in a
\* getConfluenceLink call, the call is rejected, returns no URL, and, unless
\* updatePage is what rejected, has made no updatePage call.
C9_FatalPropagates ==
    \A r \in Runs :
        (run[r].kind = "link" /\ run[r].error \in fatal) =>
            /\ run[r].pc = "rejected"
            /\ run[r].result = ""
            /\ run[r].error # "updatePage" => ~inTrace(run[r], "updatePage")

\* The director of a table cell rejected after the page was created.
C9_Witness ==
    \E r \in Runs :
        /\ run[r].kind = "link" /\ run[r].error = "director"
        /\ run[r].pc = "rejected"
        /\ run[r].nodes[run[r].idx].nodeName = "TABLE"
        /\ vault[run[r].file].properties.pageId # ""

\* ---- C10
pipelineInvoked(rec) ==
    rec.pc \in {"render", "uploadFile"} \/ inTrace(rec, "mermaid.render")
       \/ inTrace(rec, "uploadFile")

\* C10: whenever the diagram pipeline has been invoked in a traversal, the
\* path of the traversal names a file whose properties hold a non-empty
\* page id; for a document without one, neither render nor uploadFile is
\* called.
C10_PipelineNeedsPageId ==
    \A r \in Runs :
        pipelineInvoked(run[r]) =>
            /\ getAbstractFileByPath(run[r].path) # NoFile
            /\ vault[getAbstractFileByPath(run[r].path)].properties.pageId # ""

C10_Witness ==
    \E r \in Runs :
        /\ run[r].pc = "uploadFile"
        /\ run[r].pageId = vault["c.md"].properties.pageId
        /\ run[r].pageId = PageId(2)

\* ---- C11
converting(rec) == rec.kind = "link" /\ inTrace(rec, "convertObs2Adf")

\* C11 (as claimed): in a first-link run the text handed to the traversal is
\* the annotated text that the metadata write persisted, which holds the page
\* id, the space id and the URL of the new page.
C11_AnnotatedSource ==
    \A r \in Runs :
        converting(run[r]) =>
            /\ run[r].text = toFile(run[r].properties, run[r].fileData)
            /\ loadProperties(run[r].text).pageId = run[r].response.id

\* ---- C12
unresolvable(rec) ==
    rec.kind = "link" /\ getFirstLinkpathDest(rec.path) = NoFile

\* C12: a getConfluenceLink call whose path resolves to no file has returned
\* "#" (it is not rejected) and has made no file read, no file write and no
\* call of the remote client.
C12_NoLink ==
    \A r \in Runs :
        unresolvable(run[r]) =>
            /\ run[r].pc = "done"
            /\ run[r].result = "#"
            /\ run[r].error = ""
            /\ run[r].trace = <<>>

\* The second of two calls names no file, after a first one that linked a.md.
C12_Witness ==
    /\ run[1].file = "a.md" /\ run[1].pc = "done"
    /\ unresolvable(run[2]) /\ run[2].path = "nowhere" /\ run[2].result = "#"
    /\ vault["a.md"].properties.pageId = PageId(2)

\* ---- C13
\* The loop of htmlToAdf has gone from one child to the next.
nextChild(r) == run'[r].idx # run[r].idx

\* C13: htmlToAdf goes through the children of the container one by one, in
\* source order: it moves to child k+1 only from child k, when no director
\* call, file read, render or upload of child k is outstanding, and with what
\* child k appended already in the builder; k traverse calls have then ended.
C13_Sequential ==
    [][\A r \in Runs :
          nextChild(r) =>
              /\ run'[r].idx = run[r].idx + 1
              /\ run[r].idx <= Len(run[r].input)
              /\ run[r].pending = {}
              /\ run'[r].pc = "traverse"
              /\ run'[r].jobs = <<>>
              /\ Len(run'[r].marks) = run[r].idx
              /\ run'[r].marks[run[r].idx] = Len(run'[r].builder)
              /\ SubSeq(run'[r].builder, 1, Len(run[r].builder)) = run[r].builder]_vars

\* A table, then a list and a diagram: three traverse calls, each with awaits.
C13_Witness ==
    \E r \in Runs :
        /\ htmlDone(run[r])
        /\ run[r].input = <<Table(<<1>>, FALSE), Pre(<<Mermaid>>, <<"g">>)>>
        /\ types(run[r].adf) = <<"table", "mediaSingle">>
        /\ Len(run[r].marks) = 2

\* ---- C14
\* The content of the ListItem of one item: its own inline content.
ownContent(li) ==
    IF textContent(li) = <<>> THEN <<>> ELSE <<paragraphItem(textContent(li))>>
plainList(n) ==
    isListNode(n) /\ Len(querySelectorAll(n, "li")) # Len(checkboxes(n))

\* C14: a list that is not a task list appends exactly one element, an
\* OrderedList for OL and a BulletList for UL, that holds one ListItem per
\* item child in source order, each with the content of its own item, in
\* whatever order the directors of the items completed.
C14_ListItemsInOrder ==
    \A r \in Runs : \A i \in processed(run[r]) :
        plainList(run[r].input[i]) =>
            seg(run[r], i) =
                <<[type |-> IF run[r].input[i].nodeName = "OL"
                            THEN "orderedList" ELSE "bulletList",
                   content |->
                      [k \in 1..Len(itemChildren(run[r].input[i])) |->
                          listItem(ownContent(itemChildren(run[r].input[i])[k]))]]>>

\* An ordered list of two items with different content has been converted.
C14_Witness ==
    \E r \in Runs : \E i \in processed(run[r]) :
        /\ run[r].input[i] = List("OL", <<"plain", "nestedTask">>)
        /\ types(seg(run[r], i)) = <<"orderedList">>
        /\ Len(seg(run[r], i)[1].content) = 2
        /\ seg(run[r], i)[1].content[1] # seg(run[r], i)[1].content[2]

\* ---- C15
\* The ids convertMermaidToImage can take from the first attachment.
firstFileIds ==
    {resp.results[1].extensions[1].fileId :
        resp \in {u \in UploadResponses :
                     u.results # <<>> /\ u.results[1].extensions # <<>>}}

\* C15: whatever the renderer and uploadFile do, convertMermaidToImage
\* returns null or the fileId of the first attachment and rejects nothing (a
\* traversal is rejected by a content director only), and a traversal that
\* has returned after a failed diagram has converted every later sibling.
C15_PipelineNeverRejects ==
    \A r \in Runs :
        /\ run[r].pc = "rejected" => run[r].error = "director"
        /\ \A i \in processed(run[r]) :
              run[r].pipes[i] \in {NotInvoked, Null} \cup firstFileIds
        /\ htmlDone(run[r]) =>
              \A i \in 1..Len(run[r].input) :
                  (i \in processed(run[r]) /\ run[r].pipes[i] = Null) =>
                      \A j \in (i + 1)..Len(run[r].input) :
                          /\ j \in processed(run[r])
                          /\ types(seg(run[r], j)) \in allowedTypes(run[r].input[j])
                          /\ run[r].input[j].nodeName \in HeadingNames =>
                                Len(seg(run[r], j)) = 1

\* The diagram failed; the code block and the heading after it are there.
C15_Witness ==
    \E r \in Runs :
        /\ htmlDone(run[r])
        /\ run[r].input = <<Pre(<<Mermaid>>, <<"g">>), Heading("H3")>>
        /\ run[r].pipes = <<Null, NotInvoked>>
        /\ inTrace(run[r], "uploadFile")
        /\ types(run[r].adf) = <<"codeBlock", "heading">>

\* ---- C16
\* C16 (as claimed): a traversal leaves the tree it was given as it was:
\* every node of the container keeps its children, in their order.
C16_InputUnchanged ==
    \A r \in Runs :
        run[r].pc # "idle" => run[r].nodes = run[r].input

\* ---- C17
\* C17 (as claimed): in a first-link run, whatever the path the file was
\* resolved from, every diagram block the traversal has gone through was
\* converted with the page id that createPage returned to this run, and a
\* diagram being rendered or uploaded goes to that page.
C17_DiagramsFindPageId ==
    \A r \in Runs :
        converting(run[r]) =>
            /\ run[r].pc \in {"render", "uploadFile"} =>
                  run[r].pageId = run[r].response.id
            /\ \A i \in processed(run[r]) :
                  isMermaidNode(run[r].input[i]) =>
                      run[r].pageIds[i] = run[r].response.id

\* ---- C18
\* C18 (as claimed): the traversal convertObs2Adf runs has gone through every
\* child of the rendered tree by the time it returns.
C18_TraversalSeesRenderedTree ==
    \A r \in Runs :
        (converting(run[r]) /\ run[r].pc \in {"updatePage", "done"}) =>
            Len(run[r].marks) = Len(run[r].input)

\* ---- C19
\* C19 (as claimed): when a call has returned a cached URL, the page the
\* document is linked to has received an updatePage with its content.
C19_FastPathAfterUpdate ==
    \A r \in Runs :
        fastDone(run[r]) =>
            \E n \in 1..Len(pages) :
                /\ PageId(n) = run[r].fileData.properties.pageId
                /\ pages[n].updates >= 1

\* ---- C20
createPageRejected(rec) == rec.kind = "link" /\ rec.error = "createPage"
wrote(rec) == inTrace(rec, "convertObs2Adf")
hasRead(rec) ==
    rec.kind = "link" /\ rec.pc \notin {"idle", "read"} /\ rec.error # "vault.read"

\* C20: a getConfluenceLink call whose createPage rejected is rejected and
\* has made no metadata write, no traversal and no updatePage; as long as no
\* other call has written the document it keeps the text it had, without
\* URL, and any other call that has read it has attempted createPage.
C20_CreatePageRejected ==
    \A r \in Runs :
        createPageRejected(run[r]) =>
            /\ run[r].pc = "rejected"
            /\ run[r].result = ""
            /\ callsOf(run[r], {"vault.modify", "convertObs2Adf", "updatePage"}) = <<>>
            /\ (\A q \in Runs : run[q].file = run[r].file => ~wrote(run[q])) =>
                  /\ vault[run[r].file] = run[r].fileData
                  /\ ~cached(loadProperties(vault[run[r].file]))
                  /\ \A q \in Runs :
                        (hasRead(run[q]) /\ run[q].file = run[r].file) =>
                            inTrace(run[q], "createPage")

\* createPage rejected for the first call; the second call asked for a page.
C20_Witness ==
    /\ createPageRejected(run[1]) /\ run[1].file = "a.md"
    /\ run[2].file = "a.md" /\ run[2].pc = "modify"
    /\ run[2].response.id = PageId(2)
    /\ vault["a.md"].properties = NoProps

====
